---------------------------- MODULE Spec2Model ----------------------------
(***************************************************************************)
(* A model of loopy's kernel-creation front end                            *)
(* (src/loopy/kernel/creation.py) and of the callables of                  *)
(* src/loopy/library/function.py.                                          *)
(*                                                                         *)
(* Identifiers are modelled as sequences: the string "a" is <<"a">> and    *)
(* the string "a_0" is <<"a", 0>>, so that "%s_%d" % (prefix, n) is        *)
(* Append(prefix, n) and the name generated from the base "a" can collide  *)
(* with the user's own name "a_0", as it can in the program.               *)
(***************************************************************************)
EXTENDS Integers, Sequences, FiniteSets, TLC

VARIABLES
    \* UniqueNameGenerator
    existing_names,     \* self.existing_names
    ung_log,            \* the calls made so far, each with its outcome
    \* expand_defines
    ed_insn,            \* the text given to expand_defines
    ed_defines,         \* the macro table
    ed_single,          \* single_valued
    ed_replacements,    \* the local list "replacements"
    ed_out,             \* the strings the generator has yielded so far
    ed_pc,              \* "call", "yield", "done" or "ValueError"
    \* parse_domains
    pd_args_and_vars,   \* parameter args_and_vars
    pd_domains,         \* parameter domains
    pd_defines,         \* parameter defines
    pd_result,          \* result
    pd_available,       \* available_parameters
    pd_used,            \* used_inames
    pd_idx,             \* position of the next element of domains
    pd_trace,           \* per element looked at: the text after expansion,
                        \* the identifiers gathered, the parameters
                        \* synthesized and the set obtained
    pd_status,          \* "run", "done", or the error raised
    \* make_kernel
    knl,                \* the kernel make_kernel holds
    knl_prev,           \* the kernel given to the last pass that made a new one
    cse_expr_to_var,    \* cseam.expr_to_var when expand_cses is through
    mk_pc,              \* the statement of make_kernel to run next
    mk_error,           \* the exception make_kernel raised, or None
    \* MakeTupleCallable
    mt_callable,        \* the callable at hand (self, then what a call returned)
    mt_call,            \* the last call: its argument as given and as the
                        \* call left it
    mt_pc               \* "scoped", "typed" or "described"

ungVars == <<existing_names, ung_log>>
edVars == <<ed_insn, ed_defines, ed_single, ed_replacements, ed_out, ed_pc>>
pdVars == <<pd_args_and_vars, pd_domains, pd_defines, pd_result, pd_available,
            pd_used, pd_idx, pd_trace, pd_status>>
mkVars == <<knl, knl_prev, cse_expr_to_var, mk_pc, mk_error>>
mtVars == <<mt_callable, mt_call, mt_pc>>
vars == <<ungVars, edVars, pdVars, mkVars, mtVars>>

\* What the actions of one component leave alone.
notUng == <<edVars, pdVars, mkVars, mtVars>>
notEd == <<ungVars, pdVars, mkVars, mtVars>>
notPd == <<ungVars, edVars, mkVars, mtVars>>
notMk == <<ungVars, edVars, pdVars, mtVars>>
notMt == <<ungVars, edVars, pdVars, mkVars>>

\* The value of a variable of a component that the specification at hand
\* does not run.
Idle == "idle"

Range(s) == {s[k] : k \in DOMAIN s}

UngIdle == existing_names = Idle /\ ung_log = Idle

EdIdle ==
    /\ ed_insn = Idle /\ ed_defines = Idle /\ ed_single = Idle
    /\ ed_replacements = Idle /\ ed_out = Idle /\ ed_pc = Idle

MkIdle ==
    /\ knl = Idle /\ knl_prev = Idle /\ cse_expr_to_var = Idle
    /\ mk_pc = Idle /\ mk_error = Idle

MtIdle == mt_callable = Idle /\ mt_call = Idle /\ mt_pc = Idle

PdIdle ==
    /\ pd_args_and_vars = Idle /\ pd_domains = Idle /\ pd_defines = Idle
    /\ pd_result = Idle /\ pd_available = Idle /\ pd_used = Idle
    /\ pd_idx = Idle /\ pd_trace = Idle /\ pd_status = Idle

-----------------------------------------------------------------------------
(* Unique name generation: creation.py lines 41-71.                         *)

MaxCalls == 3

\* The k-th value that generate_unique_possibilities(prefix) yields
\* (k = 0, 1, 2, ...): the prefix itself, then prefix_0, prefix_1, ...
generate_unique_possibilities(prefix, k) ==
    IF k = 0 THEN prefix ELSE Append(prefix, k - 1)

is_name_conflicting(names, name) == name \in names

\* The loop of UniqueNameGenerator.__call__: the index of the first
\* possibility that does not conflict.
RECURSIVE FirstFree(_, _, _)
FirstFree(names, based_on, k) ==
    IF ~ is_name_conflicting(names, generate_unique_possibilities(based_on, k))
    THEN k
    ELSE FirstFree(names, based_on, k + 1)

\* __call__ without line 70: the name is returned but never reserved.
UngCall_no_reserve(names, based_on) ==
    LET var_name == generate_unique_possibilities(based_on,
                        FirstFree(names, based_on, 0))
    IN  [name |-> var_name, names |-> names]

\* UniqueNameGenerator.__call__ as a function of the used names: the name
\* returned and the used names afterwards.
UngCall(names, based_on) ==
    LET var_name == generate_unique_possibilities(based_on,
                        FirstFree(names, based_on, 0))
    IN  [name |-> var_name, names |-> names \cup {var_name}]

\* The names the callers of this model pass in.
UngNames == {<<"a">>, <<"a", 0>>, <<"b">>}

UngInit ==
    /\ existing_names \in SUBSET {<<"a">>, <<"a", 0>>, <<"b">>}
    /\ ung_log = <<>>

\* add_name(name): raises ValueError when the name conflicts.
add_name(name) ==
    /\ Len(ung_log) < MaxCalls
    /\ IF is_name_conflicting(existing_names, name)
       THEN /\ existing_names' = existing_names
            /\ ung_log' = Append(ung_log,
                  [op |-> "add_name", arg |-> name, before |-> existing_names,
                   after |-> existing_names, result |-> <<"ValueError">>])
       ELSE /\ existing_names' = existing_names \cup {name}
            /\ ung_log' = Append(ung_log,
                  [op |-> "add_name", arg |-> name, before |-> existing_names,
                   after |-> existing_names \cup {name}, result |-> <<"None">>])
    /\ UNCHANGED notUng

\* __call__(based_on)
generate(based_on) ==
    /\ Len(ung_log) < MaxCalls
    /\ LET r == UngCall(existing_names, based_on)
       IN  /\ existing_names' = r.names
           /\ ung_log' = Append(ung_log,
                 [op |-> "generate", arg |-> based_on, before |-> existing_names,
                  after |-> r.names, result |-> r.name])
    /\ UNCHANGED notUng

InitNames == UngInit /\ EdIdle /\ PdIdle /\ MkIdle /\ MtIdle

NextNames ==
    \/ \E name \in UngNames : add_name(name)
    \/ \E based_on \in UngNames : generate(based_on)

SpecNames == InitNames /\ [][NextNames]_vars

\* The order in which names are to be tried: base, base_0, base_1, ...
C9_Candidate(base, k) == IF k = 0 THEN base ELSE base \o <<k - 1>>

\* C9: every generate(base) call returns the first of base, base_0, base_1,
\* ... that is not in the used-name set at the time of the call and adds it
\* to the set in the same step; so the name returned was not used before,
\* no two generate calls return the same name, and add_name of a name
\* already in the set raises and leaves the set as it was.
C9_GenerateFirstFreeAndReserve ==
    \A n \in DOMAIN ung_log :
        LET e == ung_log[n] IN
        /\ e.before = (IF n = 1 THEN e.before ELSE ung_log[n - 1].after)
        /\ (n = Len(ung_log)) => e.after = existing_names
        /\ (e.op = "generate") =>
              /\ \E k \in 0 .. Cardinality(e.before) :
                    /\ e.result = C9_Candidate(e.arg, k)
                    /\ \A j \in 0 .. (k - 1) : C9_Candidate(e.arg, j) \in e.before
              /\ e.result \notin e.before
              /\ e.after = e.before \cup {e.result}
              /\ \A m \in 1 .. (n - 1) :
                    ung_log[m].op = "generate" => ung_log[m].result # e.result
        /\ (e.op = "add_name" /\ e.arg \in e.before) =>
              /\ e.result = <<"ValueError">>
              /\ e.after = e.before
        /\ (e.op = "add_name" /\ e.arg \notin e.before) =>
              /\ e.result = <<"None">>
              /\ e.after = e.before \cup {e.arg}

\* Two generate calls with the same base, the second skipping over names
\* that are taken, and an add_name of the generated name, which raises.
C9_Witness ==
    /\ Len(ung_log) = 3
    /\ ung_log[1].op = "generate" /\ ung_log[2].op = "generate"
    /\ ung_log[1].arg = <<"a">> /\ ung_log[2].arg = <<"a">>
    /\ ung_log[1].result = <<"a">>
    /\ ung_log[2].result = <<"a", 1>>
    /\ ung_log[3].op = "add_name" /\ ung_log[3].arg = <<"a">>
    /\ ung_log[3].result = <<"ValueError">>

-----------------------------------------------------------------------------
(* Macro expansion of text: creation.py lines 136-175.                      *)
(*                                                                         *)
(* A text is a sequence of tokens separated by non-word characters; a      *)
(* token is a bare word <<"w", word>> or a bracketed placeholder           *)
(* <<"b", word>>, written ${word}.  A macro value is a record: list tells  *)
(* whether it is a Python list, vals holds its element(s), each a word     *)
(* (str(val) is that word).                                                *)

MaxTextLen == 2

Bare(word) == <<"w", word>>
Braced(word) == <<"b", word>>

Scalar(word) == [list |-> FALSE, vals |-> <<word>>]
List(words) == [list |-> TRUE, vals |-> words]

\* The matches of BRACE_RE.finditer(insn), in order: one per ${word}.
BraceMatches(insn) ==
    SelectSeq(insn, LAMBDA tok : tok[1] = "b")

\* The matches of WORD_RE.finditer(insn), in order: \b([a-zA-Z0-9_]+)\b
\* matches every bare word and also the word inside ${word}.
WordMatches(insn) == insn

\* The (replace_pattern % word) of each match, in the order of the two
\* nested loops of lines 142-147: all bracketed patterns, then all word
\* patterns.
Matches(insn) ==
    [k \in DOMAIN BraceMatches(insn) |-> <<"b", BraceMatches(insn)[k][2]>>]
    \o [k \in DOMAIN WordMatches(insn) |-> <<"w", WordMatches(insn)[k][2]>>]

\* [rep + ((pattern, subval),) for rep in replacements for subval in values]
RECURSIVE Fork(_, _, _)
Fork(replacements, pattern, values) ==
    IF replacements = <<>> THEN <<>>
    ELSE [k \in DOMAIN values |->
             Append(Head(replacements), <<pattern, values[k]>>)]
         \o Fork(Tail(replacements), pattern, values)

\* The loops of lines 140-168 from match number k on: the final list of
\* replacements, or "ValueError" (line 157).
RECURSIVE BuildReplacements(_, _, _, _, _)
BuildReplacements(matches, k, defines, single_valued, replacements) ==
    IF k > Len(matches) THEN replacements
    ELSE LET word == matches[k][2] IN
         IF word \notin DOMAIN defines
         THEN BuildReplacements(matches, k + 1, defines, single_valued,
                                replacements)
         ELSE IF defines[word].list /\ single_valued THEN "ValueError"
         ELSE BuildReplacements(matches, k + 1, defines, single_valued,
                  Fork(replacements, matches[k], defines[word].vals))

\* re.sub(pattern, val, text) for the two kinds of pattern: \$\{word\}
\* replaces the whole placeholder, \bword\b replaces the word wherever it
\* stands, inside ${...} too.
ReSub(pattern, val, text) ==
    [k \in DOMAIN text |->
        IF text[k][2] # pattern[2] THEN text[k]
        ELSE IF pattern[1] = "b"
             THEN (IF text[k][1] = "b" THEN Bare(val) ELSE text[k])
             ELSE <<text[k][1], val>>]

\* Lines 171-173: the substitutions of one replacement, applied in order.
RECURSIVE ApplyRep(_, _)
ApplyRep(rep, text) ==
    IF rep = <<>> THEN text
    ELSE ApplyRep(Tail(rep), ReSub(Head(rep)[1], Head(rep)[2], text))

EdWords == {"a", "b", "x"}
EdTokens == {Bare(w) : w \in EdWords} \cup {Braced(w) : w \in EdWords}
EdTexts == UNION {[1 .. n -> EdTokens] : n \in 0 .. MaxTextLen}

\* The macro tables tried: "a" and "b" are each undefined, a single value,
\* or a list.
EdValuesOfA == {Scalar("p"), Scalar("b"), List(<<"p", "q">>)}
EdValuesOfB == {Scalar("q"), List(<<"p", "q", "r">>), List(<<"y">>)}
EdDefines ==
    {<<>>}
    \cup {[w \in {"a"} |-> va] : va \in EdValuesOfA}
    \cup {[w \in {"b"} |-> vb] : vb \in EdValuesOfB}
    \cup {[w \in {"a", "b"} |-> IF w = "a" THEN va ELSE vb] :
             va \in EdValuesOfA, vb \in EdValuesOfB}

EdInit ==
    /\ ed_insn \in EdTexts
    /\ ed_defines \in EdDefines
    /\ ed_single \in BOOLEAN
    /\ ed_replacements = <<>>
    /\ ed_out = <<>>
    /\ ed_pc = "call"

\* The first next() on the generator: lines 140-168.
EdBuild ==
    /\ ed_pc = "call"
    /\ LET reps == BuildReplacements(Matches(ed_insn), 1, ed_defines,
                                     ed_single, <<<<>>>>)
       IN  IF reps = "ValueError"
           THEN ed_pc' = "ValueError" /\ UNCHANGED ed_replacements
           ELSE ed_pc' = "yield" /\ ed_replacements' = reps
    /\ UNCHANGED <<ed_insn, ed_defines, ed_single, ed_out, notEd>>

\* One round of the loop of lines 170-175.
EdYield ==
    /\ ed_pc = "yield"
    /\ Len(ed_out) < Len(ed_replacements)
    /\ ed_out' = Append(ed_out,
                     ApplyRep(ed_replacements[Len(ed_out) + 1], ed_insn))
    /\ UNCHANGED <<ed_insn, ed_defines, ed_single, ed_replacements, ed_pc,
                   notEd>>

\* The generator is exhausted.
EdStop ==
    /\ ed_pc = "yield"
    /\ Len(ed_out) = Len(ed_replacements)
    /\ ed_pc' = "done"
    /\ UNCHANGED <<ed_insn, ed_defines, ed_single, ed_replacements, ed_out,
                   notEd>>

InitDefines == EdInit /\ UngIdle /\ PdIdle /\ MkIdle /\ MtIdle

NextDefines == EdBuild \/ EdYield \/ EdStop

SpecDefines == InitDefines /\ [][NextDefines]_vars

\* The distinct placeholders of a text that are bound to lists.
C6_ListPlaceholders(insn, defines) ==
    {w \in DOMAIN defines : defines[w].list /\ \E k \in DOMAIN insn : insn[k][2] = w}

RECURSIVE C6_Product(_, _)
C6_Product(ws, defines) ==
    IF ws = {} THEN 1
    ELSE LET w == CHOOSE w \in ws : TRUE
         IN  Len(defines[w].vals) * C6_Product(ws \ {w}, defines)

\* The text with every placeholder w of choice replaced by choice[w].
C6_Choose(insn, choice) ==
    [k \in DOMAIN insn |->
        IF insn[k][2] \in DOMAIN choice THEN Bare(choice[insn[k][2]])
        ELSE insn[k]]

\* C6: in multi-valued mode expand_defines yields one string per
\* combination of choices for the distinct list-valued placeholders of the
\* text, bare or ${...}: as many strings as the product of the list
\* lengths, none repeated, and together the Cartesian product of the
\* choices.  (Stated for tables that bind nothing but lists.)
C6_CartesianProduct ==
    (/\ ed_pc = "done"
     /\ ed_single = FALSE
     /\ \A w \in DOMAIN ed_defines : ed_defines[w].list) =>
        LET ws == C6_ListPlaceholders(ed_insn, ed_defines) IN
        /\ Len(ed_out) = C6_Product(ws, ed_defines)
        /\ \A m, n \in DOMAIN ed_out : m # n => ed_out[m] # ed_out[n]
        /\ Range(ed_out) =
              {C6_Choose(ed_insn, choice) :
                 choice \in {c \in [ws -> UNION {Range(ed_defines[w].vals) : w \in ws}] :
                               \A w \in ws : c[w] \in Range(ed_defines[w].vals)}}

-----------------------------------------------------------------------------
(* Domain parsing: creation.py lines 73-130.                                *)
(*                                                                         *)
(* A domain given as text is a record: explicit tells whether the text     *)
(* starts with a parameter list "[...] ->", params are the words of that   *)
(* list, dims the words of the set's tuple and body the identifiers of     *)
(* its constraints.  A set of the polyhedral library is a record of its    *)
(* parameter names and its dimension names; a dimension without a name     *)
(* has the name None.                                                      *)

MaxDomains == 2

None == "None"

IslSet(params, dims) == [kind |-> "set", params |-> params, dims |-> dims]

\* An exception, where a set or a text was expected.
Raised(error) == [kind |-> error]

StrDomain(explicit, params, dims, body) ==
    [kind |-> "str", explicit |-> explicit, params |-> params, dims |-> dims,
     body |-> body]

\* The text of a domain as tokens, all of them bare words.
DomainTokens(dom) ==
    [k \in DOMAIN dom.params |-> Bare(dom.params[k])]
    \o [k \in DOMAIN dom.dims |-> Bare(dom.dims[k])]
    \o [k \in DOMAIN dom.body |-> Bare(dom.body[k])]

\* Line 97, "dom, = expand_defines(dom, defines)": the one text yielded in
\* single-valued mode, or the ValueError.
ExpandDomain(dom, defines) ==
    LET toks == DomainTokens(dom)
        reps == BuildReplacements(Matches(toks), 1, defines, TRUE, <<<<>>>>)
    IN  IF reps = "ValueError" THEN Raised("ValueError")
        ELSE LET new == ApplyRep(reps[1], toks)
                 np == Len(dom.params)
                 nd == Len(dom.dims)
             IN  StrDomain(dom.explicit,
                           [k \in 1 .. np |-> new[k][2]],
                           [k \in 1 .. nd |-> new[np + k][2]],
                           [k \in 1 .. Len(dom.body) |-> new[np + nd + k][2]])

\* _gather_identifiers(dom) of a text without a parameter list.
gather_identifiers(dom) == Range(dom.dims) \cup Range(dom.body)

\* Line 102 without the intersection: every identifier is a parameter.
SynthesizeParameters_all_ids(ids, available_parameters) == ids

\* Line 102.
SynthesizeParameters(ids, available_parameters) ==
    ids \cap available_parameters

\* isl.BasicSet.read_from_str on "[params] -> { [dims] : body }": an
\* identifier of the constraints that is neither a parameter nor a
\* dimension is a parse error; a tuple entry that names a parameter, or an
\* earlier entry of the tuple, stands for that variable and makes a
\* dimension without a name (whence "redefined iname?" in line 118).
read_from_str(params, dims, body) ==
    IF ~ (Range(body) \subseteq (params \cup Range(dims)))
    THEN Raised("ParseError")
    ELSE IslSet(params,
                [k \in DOMAIN dims |->
                    IF dims[k] \in params
                       \/ \E j \in 1 .. (k - 1) : dims[j] = dims[k]
                    THEN None ELSE dims[k]])

\* The loop of lines 114-126 without line 125.
RECURSIVE WalkDims_no_used(_, _, _, _)
WalkDims_no_used(dims, i, used_inames, available_parameters) ==
    IF i > Len(dims)
    THEN [status |-> "run", used |-> used_inames,
          available |-> available_parameters]
    ELSE IF dims[i] = None
    THEN [status |-> "NoIname", used |-> used_inames,
          available |-> available_parameters]
    ELSE WalkDims_no_used(dims, i + 1, used_inames,
                          available_parameters \cup {dims[i]})

\* The loop of lines 114-126 from dimension i on.
RECURSIVE WalkDims(_, _, _, _)
WalkDims(dims, i, used_inames, available_parameters) ==
    IF i > Len(dims)
    THEN [status |-> "run", used |-> used_inames,
          available |-> available_parameters]
    ELSE IF dims[i] = None
    THEN [status |-> "NoIname", used |-> used_inames,
          available |-> available_parameters]
    ELSE IF dims[i] \in used_inames
    THEN [status |-> "Redefines", used |-> used_inames,
          available |-> available_parameters]
    ELSE WalkDims(dims, i + 1, used_inames \cup {dims[i]},
                  available_parameters \cup {dims[i]})

\* Lines 96-112 for one element of domains: the set it resolves to (or the
\* error raised), with the locals the claims speak of.
ResolveDomain(dom, defines, available_parameters) ==
    IF dom.kind = "set"
    THEN [text |-> None, synth |-> FALSE, ids |-> {}, parameters |-> {},
          set |-> dom]
    ELSE LET text == ExpandDomain(dom, defines) IN
         IF text.kind = "ValueError"
         THEN [text |-> None, synth |-> FALSE, ids |-> {}, parameters |-> {},
               set |-> text]
         ELSE IF text.explicit
         THEN [text |-> text, synth |-> FALSE, ids |-> {},
               parameters |-> Range(text.params),
               set |-> read_from_str(Range(text.params), text.dims, text.body)]
         ELSE LET ids == gather_identifiers(text)
                  parameters == SynthesizeParameters(ids, available_parameters)
              IN  [text |-> text, synth |-> TRUE, ids |-> ids,
                   parameters |-> parameters,
                   set |-> read_from_str(parameters, text.dims, text.body)]

PdDims == {<<"i">>, <<"j">>, <<"i", "j">>}
PdStrDomains ==
    {StrDomain(FALSE, <<>>, dims, body) :
        dims \in PdDims, body \in {<<"n">>, <<"i">>, <<"j">>}}
    \cup {StrDomain(TRUE, params, dims, <<"n">>) :
        dims \in PdDims, params \in {<<"n">>, <<"n", "i">>}}
PdSets ==
    {IslSet({"n"}, dims) : dims \in PdDims \cup {<<None>>}}
PdDomains == PdStrDomains \cup PdSets

PdInit ==
    /\ pd_args_and_vars \in {{}, {"n"}, {"n", "j"}}
    /\ pd_domains \in UNION {[1 .. n -> PdDomains] : n \in 0 .. MaxDomains}
    /\ pd_defines \in {<<>>, [w \in {"n"} |-> Scalar("j")],
                         [w \in {"j"} |-> List(<<"i", "n">>)]}
    /\ pd_result = <<>>
    /\ pd_available = pd_args_and_vars
    /\ pd_used = {}
    /\ pd_idx = 1
    /\ pd_trace = <<>>
    /\ pd_status = "run"

\* One round of the loop of lines 95-128.
ParseDomain ==
    /\ pd_status = "run"
    /\ pd_idx <= Len(pd_domains)
    /\ LET r == ResolveDomain(pd_domains[pd_idx], pd_defines, pd_available) IN
       /\ pd_trace' = Append(pd_trace, r)
       /\ IF r.set.kind \in {"ValueError", "ParseError"}
          THEN /\ pd_status' = r.set.kind
               /\ UNCHANGED <<pd_result, pd_available, pd_used, pd_idx>>
          ELSE LET w == WalkDims(r.set.dims, 1, pd_used, pd_available) IN
               /\ pd_status' = w.status
               /\ pd_used' = w.used
               /\ pd_available' = w.available
               /\ IF w.status = "run"
                  THEN /\ pd_result' = Append(pd_result, r.set)
                       /\ pd_idx' = pd_idx + 1
                  ELSE UNCHANGED <<pd_result, pd_idx>>
    /\ UNCHANGED <<pd_args_and_vars, pd_domains, pd_defines, notPd>>

\* Line 130.
ParseDomainsReturn ==
    /\ pd_status = "run"
    /\ pd_idx > Len(pd_domains)
    /\ pd_status' = "done"
    /\ UNCHANGED <<pd_args_and_vars, pd_domains, pd_defines, pd_result,
                   pd_available, pd_used, pd_idx, pd_trace, notPd>>

InitDomains == PdInit /\ UngIdle /\ EdIdle /\ MkIdle /\ MtIdle

NextDomains == ParseDomain \/ ParseDomainsReturn

SpecDomains == InitDomains /\ [][NextDomains]_vars

\* The loop indices declared by the domains before position k.
PdEarlierInames(k) == UNION {Range(pd_result[j].dims) : j \in 1 .. (k - 1)}

\* C7: the parameter list synthesized for the k-th text domain holds only
\* names of the initially available parameters and loop indices declared
\* by domains at positions before k; and a text domain that refers to a
\* loop index declared only by a later domain (and is given no parameter
\* list of its own) makes parse_domains fail at that domain.
C7_VisibilityWindow ==
    \A k \in DOMAIN pd_trace :
        pd_trace[k].synth =>
            /\ pd_trace[k].parameters
                  \subseteq (pd_args_and_vars \cup PdEarlierInames(k))
            /\ \A id \in Range(pd_trace[k].text.body) :
                  (/\ \E j \in (k + 1) .. Len(pd_domains) :
                         id \in Range(pd_domains[j].dims)
                   /\ id \notin pd_args_and_vars
                   /\ id \notin PdEarlierInames(k)
                   /\ id \notin Range(pd_trace[k].text.dims))
                  => /\ pd_status = "ParseError"
                     /\ Len(pd_result) = k - 1

\* Two text domains are accepted, and the second was offered the loop index
\* of the first, which is no initially available parameter, as a parameter.
C7_Witness ==
    /\ pd_status = "done"
    /\ Len(pd_result) = 2
    /\ pd_trace[1].synth /\ pd_trace[2].synth
    /\ "i" \in Range(pd_result[1].dims)
    /\ "i" \notin pd_args_and_vars
    /\ "i" \in pd_trace[2].parameters
    /\ "i" \in pd_result[2].params

\* The dimension names the k-th element of domains declares.
PdDeclared(k) ==
    IF pd_domains[k].kind = "set" THEN Range(pd_domains[k].dims) \ {None}
    ELSE IF pd_trace[k].set.kind = "ValueError" THEN Range(pd_domains[k].dims)
    ELSE Range(pd_trace[k].text.dims)

PdRedeclares(k) == PdDeclared(k) \cap PdEarlierInames(k) # {}

PdUnnamedGiven(k) ==
    pd_domains[k].kind = "set" /\ None \in Range(pd_domains[k].dims)

\* What C8 says of a call that returns.
PdReturned ==
    pd_status = "done" =>
        /\ Len(pd_result) = Len(pd_domains)
        /\ \A k \in DOMAIN pd_result :
              /\ pd_domains[k].kind = "set" => pd_result[k] = pd_domains[k]
              /\ pd_domains[k].kind = "str" =>
                    pd_result[k].dims = pd_trace[k].text.dims
              /\ None \notin Range(pd_result[k].dims)
              /\ \A i, j \in DOMAIN pd_result[k].dims :
                    i # j => pd_result[k].dims[i] # pd_result[k].dims[j]
              /\ \A m \in DOMAIN pd_result :
                    m # k => Range(pd_result[m].dims)
                               \cap Range(pd_result[k].dims) = {}

\* C8 as claimed: a domain (text or pre-built set) that declares a dimension
\* name already declared by an earlier domain makes parse_domains fail with
\* the redefinition error, a dimension without a name makes it fail with
\* the unnamed-dimension error, and a call that returns gives one domain per
\* element, in order, with all dimension names distinct.  (Where macro
\* expansion or parsing of that text fails first, or the set has both an
\* unnamed and a redeclared dimension, nothing is asked.)
C8_RedefinitionError ==
    /\ PdReturned
    /\ \A k \in DOMAIN pd_trace :
          pd_status \notin {"ValueError", "ParseError"} =>
            /\ (PdRedeclares(k) /\ ~ PdUnnamedGiven(k))
                  => pd_status = "Redefines"
            /\ (PdUnnamedGiven(k) /\ ~ PdRedeclares(k))
                  => pd_status = "NoIname"

\* Whether the set the k-th element resolved to has a dimension without a
\* name.
PdUnnamed(k) == None \in Range(pd_trace[k].set.dims)

\* C8, amended: a domain that declares a dimension name already declared by
\* an earlier domain makes parse_domains fail: with the redefinition error
\* when every dimension of the set it resolves to has a name (a pre-built
\* set, or a text with a parameter list of its own), but with the
\* unnamed-dimension error when the parameter list of the text is
\* synthesized, because the earlier loop index is then offered as a
\* parameter and the dimension comes back without a name; a set with a
\* dimension without a name and no redeclared one fails with the
\* unnamed-dimension error; and a call that returns gives one domain per
\* element, in order, with all dimension names distinct.  (Macro expansion
\* or parsing of the text may fail first.)
C8_RedeclarationFails ==
    /\ PdReturned
    /\ \A k \in DOMAIN pd_trace :
          /\ (PdRedeclares(k) \/ PdUnnamedGiven(k)) =>
                /\ Len(pd_result) = k - 1
                /\ pd_status \in {"Redefines", "NoIname", "ValueError",
                                   "ParseError"}
          /\ pd_status \notin {"ValueError", "ParseError"} =>
                /\ (PdRedeclares(k) /\ ~ PdUnnamed(k))
                      => pd_status = "Redefines"
                /\ (PdRedeclares(k) /\ pd_trace[k].synth)
                      => pd_status = "NoIname" /\ PdUnnamed(k)
                /\ (PdUnnamed(k) /\ ~ PdRedeclares(k))
                      => pd_status = "NoIname"
                /\ (PdUnnamed(k) /\ PdRedeclares(k))
                      => pd_status \in {"NoIname", "Redefines"}

\* The second of two texts without parameter lists declares the loop index
\* of the first again, and the call fails for want of a dimension name.
C8_Witness ==
    /\ Len(pd_trace) = 2
    /\ pd_trace[1].synth /\ pd_trace[2].synth
    /\ PdRedeclares(2)
    /\ pd_status = "NoIname"

-----------------------------------------------------------------------------
(* Kernels, instructions and expressions, as creation.py uses them.         *)

MaxInsns == 2

\* The identifier written s.
Nm(s) == <<s>>

\* None, where a name is expected.
NoName == <<>>

infer_type == "infer_type"

\* Expression nodes: a variable, a sum, a (typed) common subexpression with
\* its prefix, and a reduction over a set of inames.
Variable(name) ==
    [op |-> "var", name |-> name, dtype |-> None, inames |-> {}, args |-> <<>>]
Sum(a, b) ==
    [op |-> "sum", name |-> NoName, dtype |-> None, inames |-> {},
     args |-> <<a, b>>]
CommonSubexpression(prefix, dtype, child) ==
    [op |-> "cse", name |-> prefix, dtype |-> dtype, inames |-> {},
     args |-> <<child>>]
Reduction(inames, expr) ==
    [op |-> "red", name |-> NoName, dtype |-> None, inames |-> inames,
     args |-> <<expr>>]

Instruction(id, assignee_name, assignee_indices, expression, temp_var_type, forced_iname_deps) ==
    [id |-> id,
     assignee |-> [name |-> assignee_name, indices |-> assignee_indices],
     expression |-> expression,
     temp_var_type |-> temp_var_type,
     forced_iname_deps |-> forced_iname_deps]

TemporaryVariable(name, dtype, base_indices, shape) ==
    [name |-> name, dtype |-> dtype, is_local |-> None,
     base_indices |-> base_indices, shape |-> shape]

SubstitutionRule(name, arguments, expression) ==
    [name |-> name, arguments |-> arguments, expression |-> expression]

LoopKernel(domains, iname_to_tag, instructions, args, temporary_variables, substitutions) ==
    [domains |-> domains, iname_to_tag |-> iname_to_tag,
     instructions |-> instructions, args |-> args,
     temporary_variables |-> temporary_variables,
     substitutions |-> substitutions]

\* d[k] = v on a copy of the dict d.
Put(d, k, v) == [x \in DOMAIN d \cup {k} |-> IF x = k THEN v ELSE d[x]]

\* The outcome of a pass or a check: the exception raised (or None) and
\* the kernel returned.
Outcome(error, kernel) == [error |-> error, knl |-> kernel]

all_inames(kernel) ==
    UNION {Range(kernel.domains[k].dims) : k \in DOMAIN kernel.domains}

arg_names(kernel) == Range(kernel.args)

get_assignee_var_name(insn) == insn.assignee.name

get_assignee_indices(insn) == insn.assignee.indices

\* The inames of all reduction nodes of an expression: what a
\* ReductionCallbackMapper hands to its callback, node by node.
RECURSIVE ReductionInames(_)
ReductionInames(expr) ==
    (IF expr.op = "red" THEN expr.inames ELSE {})
    \cup UNION {ReductionInames(expr.args[k]) : k \in DOMAIN expr.args}

-----------------------------------------------------------------------------
(* Sanity checks: creation.py lines 358-415 and 548-567.                    *)

\* Lines 377-385.
check_for_nonexistent_iname_deps(kernel) ==
    IF \E k \in DOMAIN kernel.instructions :
          ~ (kernel.instructions[k].forced_iname_deps
               \subseteq all_inames(kernel))
    THEN "ValueError" ELSE None

\* iname.startswith("@")
StartsWithAt(iname) == iname[1] \in {"@j"}

\* Lines 548-567.
check_for_reduction_inames_duplication_requests(kernel) ==
    IF \/ \E k \in DOMAIN kernel.instructions :
             \E iname \in ReductionInames(kernel.instructions[k].expression) :
                StartsWithAt(iname)
       \/ \E sub_name \in DOMAIN kernel.substitutions :
             \E iname \in ReductionInames(
                             kernel.substitutions[sub_name].expression) :
                StartsWithAt(iname)
    THEN "RuntimeError" ELSE None

\* The names check_for_duplicate_names walks, with their sources, in the
\* order of lines 368-375 (the order within a set or dict is immaterial to
\* whether it raises).
RECURSIVE SetToSeq(_)
SetToSeq(S) ==
    IF S = {} THEN <<>>
    ELSE LET x == CHOOSE x \in S : TRUE IN <<x>> \o SetToSeq(S \ {x})

\* Lines 368-373: the substitution rules are not looked at.
NamesWithSources_no_substitutions(kernel) ==
    [k \in DOMAIN SetToSeq(all_inames(kernel)) |->
        <<SetToSeq(all_inames(kernel))[k], "iname">>]
    \o [k \in DOMAIN kernel.args |-> <<kernel.args[k], "argument">>]
    \o [k \in DOMAIN SetToSeq(DOMAIN kernel.temporary_variables) |->
        <<SetToSeq(DOMAIN kernel.temporary_variables)[k], "temporary">>]

NamesWithSources(kernel) ==
    [k \in DOMAIN SetToSeq(all_inames(kernel)) |->
        <<SetToSeq(all_inames(kernel))[k], "iname">>]
    \o [k \in DOMAIN kernel.args |-> <<kernel.args[k], "argument">>]
    \o [k \in DOMAIN SetToSeq(DOMAIN kernel.temporary_variables) |->
        <<SetToSeq(DOMAIN kernel.temporary_variables)[k], "temporary">>]
    \o [k \in DOMAIN SetToSeq(DOMAIN kernel.substitutions) |->
        <<SetToSeq(DOMAIN kernel.substitutions)[k], "substitution">>]

\* add_name (lines 361-366) over the names from position k on.
RECURSIVE AddNames(_, _, _)
AddNames(names, k, name_to_source) ==
    IF k > Len(names) THEN None
    ELSE IF names[k][1] \in DOMAIN name_to_source THEN "RuntimeError"
    ELSE AddNames(names, k + 1, Put(name_to_source, names[k][1], names[k][2]))

\* Lines 358-375.
check_for_duplicate_names(kernel) ==
    AddNames(NamesWithSources(kernel), 1, <<>>)

\* knl.writer_map(): the ids of the instructions writing each variable.
writer_map(kernel) ==
    [var_name \in {get_assignee_var_name(kernel.instructions[k]) :
                     k \in DOMAIN kernel.instructions} |->
        {kernel.instructions[k].id :
            k \in {j \in DOMAIN kernel.instructions :
                     get_assignee_var_name(kernel.instructions[j]) = var_name}}]

\* Lines 390-395.
temp_var_domain_parameters(kernel) ==
    UNION {kernel.domains[k].params : k \in DOMAIN kernel.domains}
    \cap DOMAIN kernel.temporary_variables

\* Lines 399-402 with "< 1" for "!= 1".
WritersError_none_only(kernel, tvpar) ==
    IF tvpar \notin DOMAIN writer_map(kernel) THEN "KeyError"
    ELSE IF Cardinality(writer_map(kernel)[tvpar]) < 1 THEN "RuntimeError"
    ELSE None

\* Lines 399-402 for one parameter: wmap[tvpar] raises KeyError when no
\* instruction writes it.
WritersError(kernel, tvpar) ==
    IF tvpar \notin DOMAIN writer_map(kernel) THEN "KeyError"
    ELSE IF Cardinality(writer_map(kernel)[tvpar]) # 1 THEN "RuntimeError"
    ELSE None

\* Lines 387-402: the exceptions the loop can end with (which one, when
\* several parameters are at fault, hangs on the order of a set); {None}
\* when it raises nothing.
check_for_multiple_writes_to_loop_bounds(kernel) ==
    LET errors == {WritersError(kernel, tvpar) :
                      tvpar \in temp_var_domain_parameters(kernel)} \ {None}
    IN  IF errors = {} THEN {None} ELSE errors

\* Lines 410-415, but the loop is left after its first round.
BadAssignee_first_only(kernel, admissible_vars) ==
    \E k \in DOMAIN kernel.instructions :
        /\ k = 1
        /\ get_assignee_var_name(kernel.instructions[k]) \notin admissible_vars

\* Lines 410-415.
BadAssignee(kernel, admissible_vars) ==
    \E k \in DOMAIN kernel.instructions :
        get_assignee_var_name(kernel.instructions[k]) \notin admissible_vars

\* Lines 405-415.
check_written_variable_names(kernel) ==
    LET admissible_vars ==
            arg_names(kernel) \cup DOMAIN kernel.temporary_variables
    IN  IF BadAssignee(kernel, admissible_vars) THEN "RuntimeError" ELSE None

-----------------------------------------------------------------------------
(* Reduction inames are sequential: creation.py lines 327-352.              *)

ParallelTag == "ParallelTag"
ForceSequentialTag == "ForceSequentialTag"
UnrollTag == "UnrollTag"

\* Lines 328-336: the inames of the reductions of the instructions.
reduction_inames(kernel) ==
    UNION {ReductionInames(kernel.instructions[k].expression) :
              k \in DOMAIN kernel.instructions}

\* knl.iname_to_tag.get(iname)
get_tag(kernel, iname) ==
    IF iname \in DOMAIN kernel.iname_to_tag
    THEN kernel.iname_to_tag[iname] ELSE None

\* loopy.tag_inames(knl, new_iname_to_tag)
tag_inames(kernel, new_iname_to_tag) ==
    [kernel EXCEPT !.iname_to_tag =
        [iname \in DOMAIN kernel.iname_to_tag \cup DOMAIN new_iname_to_tag |->
            IF iname \in DOMAIN new_iname_to_tag
            THEN new_iname_to_tag[iname] ELSE kernel.iname_to_tag[iname]]]

\* Lines 327-352.
tag_reduction_inames_as_sequential(kernel) ==
    LET result == reduction_inames(kernel) IN
    IF \E iname \in result : get_tag(kernel, iname) = ParallelTag
    THEN Outcome("RuntimeError", kernel)
    ELSE Outcome(None,
            tag_inames(kernel,
               [iname \in {i \in result : get_tag(kernel, i) = None} |->
                   ForceSequentialTag]))

-----------------------------------------------------------------------------
(* Temporary variable creation: creation.py lines 495-542.                  *)

\* Lines 507-516: whether an index of the assignee is no plain iname.
BadAssigneeIndex(kernel, insn) ==
    \E k \in DOMAIN get_assignee_indices(insn) :
        LET index_expr == get_assignee_indices(insn)[k] IN
        \/ index_expr.op # "var"
        \/ index_expr.name \notin all_inames(kernel)

\* knl.find_var_base_indices_and_shape_from_inames(assignee_indices, ...):
\* one base index and one extent per iname, here named by the iname.
find_var_base_indices_and_shape_from_inames(kernel, assignee_indices) ==
    [base_indices |-> [k \in DOMAIN assignee_indices |->
                          <<"min", assignee_indices[k]>>],
     shape |-> [k \in DOMAIN assignee_indices |->
                   <<"extent", assignee_indices[k]>>]]

\* Lines 529-534.
NewTemporary(kernel, insn) ==
    LET assignee_indices ==
            [k \in DOMAIN get_assignee_indices(insn) |->
                get_assignee_indices(insn)[k].name]
        bs == find_var_base_indices_and_shape_from_inames(kernel,
                                                         assignee_indices)
    IN  TemporaryVariable(get_assignee_var_name(insn), insn.temp_var_type,
                          bs.base_indices, bs.shape)

\* Lines 522-527 looking only at the temporaries the kernel came with.
AlreadyExists_old_temporaries(kernel, new_temp_vars, assignee_name) ==
    IF assignee_name \in DOMAIN kernel.temporary_variables
    THEN "already exists"
    ELSE IF assignee_name \in arg_names(kernel)
    THEN "already exists as argument"
    ELSE None

\* Lines 522-527.
AlreadyExists(kernel, new_temp_vars, assignee_name) ==
    IF assignee_name \in DOMAIN new_temp_vars THEN "already exists"
    ELSE IF assignee_name \in arg_names(kernel)
    THEN "already exists as argument"
    ELSE None

\* The loop of lines 499-538 from instruction k on.
RECURSIVE CreateTemporariesFrom(_, _, _, _)
CreateTemporariesFrom(kernel, k, new_insns, new_temp_vars) ==
    IF k > Len(kernel.instructions)
    THEN Outcome(None, [kernel EXCEPT !.instructions = new_insns,
                                      !.temporary_variables = new_temp_vars])
    ELSE LET insn == kernel.instructions[k] IN
         IF insn.temp_var_type = None
         THEN CreateTemporariesFrom(kernel, k + 1, Append(new_insns, insn),
                                    new_temp_vars)
         ELSE IF BadAssigneeIndex(kernel, insn)
         THEN Outcome("only plain inames", kernel)
         ELSE IF AlreadyExists(kernel, new_temp_vars,
                               get_assignee_var_name(insn)) # None
         THEN Outcome(AlreadyExists(kernel, new_temp_vars,
                                    get_assignee_var_name(insn)), kernel)
         ELSE CreateTemporariesFrom(kernel, k + 1,
                  Append(new_insns, [insn EXCEPT !.temp_var_type = None]),
                  Put(new_temp_vars, get_assignee_var_name(insn),
                      NewTemporary(kernel, insn)))

\* Lines 495-542.
create_temporaries(kernel) ==
    CreateTemporariesFrom(kernel, 1, <<>>, kernel.temporary_variables)

-----------------------------------------------------------------------------
(* Common subexpressions become assignments: creation.py lines 421-489.     *)

\* knl.get_var_name_generator(): the names a new variable must avoid.
all_variable_names(kernel) ==
    DOMAIN kernel.temporary_variables \cup DOMAIN kernel.substitutions
    \cup arg_names(kernel) \cup all_inames(kernel)

\* knl.make_unique_instruction_id(extra_used_ids=...)
make_unique_instruction_id(kernel, extra_used_ids) ==
    LET used_ids == {kernel.instructions[k].id :
                        k \in DOMAIN kernel.instructions} \cup extra_used_ids
    IN  generate_unique_possibilities(Nm("insn"),
                                      FirstFree(used_ids, Nm("insn"), 0))

\* The state expand_cses and its mapper share: cseam.expr_to_var, the names
\* var_name_gen has given out or avoids, new_temp_vars, new_insns and
\* newly_created_insn_ids.
CseState(expr_to_var, names, new_temp_vars, new_insns, newly_created_insn_ids) ==
    [expr_to_var |-> expr_to_var, names |-> names,
     new_temp_vars |-> new_temp_vars, new_insns |-> new_insns,
     newly_created_insn_ids |-> newly_created_insn_ids]

\* add_assignment, lines 447-473: the new variable's name and the state
\* afterwards.
add_assignment(kernel, base_name, expr, dtype, st) ==
    LET gen == UngCall(st.names,
                       IF base_name = NoName THEN Nm("var") ELSE base_name)
        new_var_name == gen.name
        id == make_unique_instruction_id(kernel, st.newly_created_insn_ids)
    IN  [name |-> new_var_name,
         st |-> CseState(st.expr_to_var, gen.names,
                   Put(st.new_temp_vars, new_var_name,
                       TemporaryVariable(new_var_name,
                           IF dtype = None THEN infer_type ELSE dtype,
                           <<>>, <<>>)),
                   Append(st.new_insns,
                          Instruction(id, new_var_name, <<>>, expr, None, {})),
                   st.newly_created_insn_ids \cup {id})]

\* Line 443 left out.
Remember_nothing(expr_to_var, child, var) == expr_to_var

\* Line 443: self.expr_to_var[expr.child] = var
Remember(expr_to_var, child, var) == Put(expr_to_var, child, var)

RECURSIVE cseam(_, _, _)
RECURSIVE MapArgs(_, _, _, _)
RECURSIVE map_common_subexpression(_, _, _)

\* The mapper on an expression: the new expression and the state afterwards.
\* Every node but a common subexpression is rebuilt from its mapped
\* children (IdentityMapper).
cseam(kernel, expr, st) ==
    IF expr.op = "cse" THEN map_common_subexpression(kernel, expr, st)
    ELSE IF expr.args = <<>> THEN [expr |-> expr, st |-> st]
    ELSE LET r == MapArgs(kernel, expr.args, 1, st)
         IN  [expr |-> [expr EXCEPT !.args = r.args], st |-> r.st]

\* The children from position k on, mapped from left to right.
MapArgs(kernel, args, k, st) ==
    IF k > Len(args) THEN [args |-> <<>>, st |-> st]
    ELSE LET first == cseam(kernel, args[k], st)
             rest == MapArgs(kernel, args, k + 1, first.st)
         IN  [args |-> <<first.expr>> \o rest.args, st |-> rest.st]

\* Lines 426-444.
map_common_subexpression(kernel, expr, st) ==
    LET child0 == expr.args[1] IN
    IF child0 \in DOMAIN st.expr_to_var
    THEN [expr |-> st.expr_to_var[child0], st |-> st]
    ELSE LET r == cseam(kernel, child0, st) IN
         IF r.expr.op = "var" THEN r
         ELSE LET a == add_assignment(kernel, expr.name, r.expr, expr.dtype,
                                      r.st)
              IN  [expr |-> Variable(a.name),
                   st |-> [a.st EXCEPT !.expr_to_var =
                              Remember(@, child0, Variable(a.name))]]

\* The loop of lines 484-485 with the instruction put on new_insns before
\* its expression is mapped.
RECURSIVE ExpandCsesFrom_insn_first(_, _, _)
ExpandCsesFrom_insn_first(kernel, k, st) ==
    IF k > Len(kernel.instructions) THEN st
    ELSE LET insn == kernel.instructions[k]
             at == Len(st.new_insns) + 1
             r == cseam(kernel, insn.expression,
                        [st EXCEPT !.new_insns = Append(@, insn)])
         IN  ExpandCsesFrom_insn_first(kernel, k + 1,
                [r.st EXCEPT !.new_insns[at].expression = r.expr])

\* The loop of lines 484-485 from instruction k on.
RECURSIVE ExpandCsesFrom(_, _, _)
ExpandCsesFrom(kernel, k, st) ==
    IF k > Len(kernel.instructions) THEN st
    ELSE LET insn == kernel.instructions[k]
             r == cseam(kernel, insn.expression, st)
         IN  ExpandCsesFrom(kernel, k + 1,
                [r.st EXCEPT !.new_insns =
                    Append(@, [insn EXCEPT !.expression = r.expr])])

\* Lines 475-485: the state when the loop is through.
ExpandCsesState(kernel) ==
    ExpandCsesFrom(kernel, 1,
        CseState(<<>>, all_variable_names(kernel), kernel.temporary_variables,
                 <<>>, {}))

\* Lines 446-489.
expand_cses(kernel) ==
    [kernel EXCEPT !.instructions = ExpandCsesState(kernel).new_insns,
                   !.temporary_variables = ExpandCsesState(kernel).new_temp_vars]

-----------------------------------------------------------------------------
(* make_kernel from the construction of the kernel on: creation.py lines    *)
(* 643-663.                                                                 *)

\* The kernels LoopKernel(...) of line 643 is taken from.  Instruction ids
\* are unique; the k-th instruction has the id InsnId(k).
InsnId(k) == IF k = 1 THEN Nm("insn") ELSE <<"insn", 2 * k - 3>>

MkA == Variable(Nm("a"))
MkN == Variable(Nm("n"))
MkI == Variable(Nm("i"))
MkAplusN == Sum(MkA, MkN)

MkInstructions ==
    { \* a[i] = n
      Instruction(NoName, Nm("a"), <<MkI>>, MkN, None, {}),
      \* t = cse(a + n)
      Instruction(NoName, Nm("t"), <<>>,
                  CommonSubexpression(NoName, None, MkAplusN), None, {}),
      \* <float64> t = a + n
      Instruction(NoName, Nm("t"), <<>>, MkAplusN, "float64", {}),
      \* <> x[i] = cse(a + n, "x", float32) + cse(a + n)
      Instruction(NoName, Nm("x"), <<MkI>>,
                  Sum(CommonSubexpression(Nm("x"), "float32", MkAplusN),
                      CommonSubexpression(NoName, None, MkAplusN)),
                  infer_type, {}),
      \* <float64> a = n
      Instruction(NoName, Nm("a"), <<>>, MkN, "float64", {}),
      \* x = x
      Instruction(NoName, Nm("x"), <<>>, Variable(Nm("x")), None, {}),
      \* a[i] = cse(cse(a + n) + n)
      Instruction(NoName, Nm("a"), <<MkI>>,
                  CommonSubexpression(NoName, None,
                      Sum(CommonSubexpression(NoName, None, MkAplusN), MkN)),
                  None, {}),
      \* a[i] = sum(j, cse(a)), with a forced dependency on i
      Instruction(NoName, Nm("a"), <<MkI>>,
                  Reduction({Nm("j")}, CommonSubexpression(NoName, None, MkA)),
                  None, {Nm("i")}),
      \* <float64> x[n] = n
      Instruction(NoName, Nm("x"), <<MkN>>, MkN, "float64", {}),
      \* a[i] = n, with a forced dependency on k
      Instruction(NoName, Nm("a"), <<MkI>>, MkN, None, {Nm("k")}) }

MkInstructionLists ==
    {[k \in DOMAIN l |-> [l[k] EXCEPT !.id = InsnId(k)]] :
        l \in UNION {[1 .. n -> MkInstructions] : n \in 0 .. MaxInsns}}

MkDomains ==
    { <<IslSet({Nm("n")}, <<Nm("i"), Nm("j")>>)>>,
      <<IslSet({Nm("n")}, <<Nm("i")>>), IslSet({Nm("t"), Nm("i")}, <<Nm("j")>>)>> }

MkTags ==
    { <<>>,
      [iname \in {Nm("j")} |-> ParallelTag],
      [iname \in {Nm("j")} |-> UnrollTag] }

MkTemporaries ==
    { <<>>,
      [name \in {Nm("t")} |-> TemporaryVariable(Nm("t"), "int32", <<>>, <<>>)] }

MkSubstitutions ==
    { <<>>,
      \* f := sum(j, a)
      [name \in {Nm("f")} |->
          SubstitutionRule(Nm("f"), <<>>, Reduction({Nm("j")}, MkA))],
      \* a(n) := n
      [name \in {Nm("a")} |-> SubstitutionRule(Nm("a"), <<Nm("n")>>, MkN)],
      \* f := sum(@j, a)
      [name \in {Nm("f")} |->
          SubstitutionRule(Nm("f"), <<>>, Reduction({Nm("@j")}, MkA))] }

MkInit ==
    /\ knl \in {LoopKernel(domains, iname_to_tag, instructions,
                            <<Nm("a"), Nm("n")>>, temporary_variables,
                            substitutions) :
                    domains \in MkDomains, iname_to_tag \in MkTags,
                    instructions \in MkInstructionLists,
                    temporary_variables \in MkTemporaries,
                    substitutions \in MkSubstitutions}
    /\ knl_prev = knl
    /\ cse_expr_to_var = <<>>
    /\ mk_pc = "check_for_nonexistent_iname_deps"
    /\ mk_error = None

\* A check that does not raise: on to the next statement.
Pass(pc) ==
    /\ mk_pc' = pc
    /\ UNCHANGED <<knl, knl_prev, cse_expr_to_var, mk_error, notMk>>

\* An exception leaves make_kernel.
Raise(error) ==
    /\ mk_pc' = "raised"
    /\ mk_error' = error
    /\ UNCHANGED <<knl, knl_prev, cse_expr_to_var, notMk>>

\* Line 645.
CheckInameDeps ==
    /\ mk_pc = "check_for_nonexistent_iname_deps"
    /\ IF check_for_nonexistent_iname_deps(knl) # None
       THEN Raise(check_for_nonexistent_iname_deps(knl))
       ELSE Pass("check_for_reduction_inames_duplication_requests")

\* Line 646.
CheckReductionDuplication ==
    /\ mk_pc = "check_for_reduction_inames_duplication_requests"
    /\ IF check_for_reduction_inames_duplication_requests(knl) # None
       THEN Raise(check_for_reduction_inames_duplication_requests(knl))
       ELSE Pass("tag_reduction_inames_as_sequential")

\* A pass that returns a new kernel, or raises.
RunPass(outcome, pc) ==
    IF outcome.error # None THEN Raise(outcome.error)
    ELSE /\ knl' = outcome.knl
         /\ knl_prev' = knl
         /\ mk_pc' = pc
         /\ UNCHANGED <<cse_expr_to_var, mk_error, notMk>>

\* Line 648.
TagReductionInames ==
    /\ mk_pc = "tag_reduction_inames_as_sequential"
    /\ RunPass(tag_reduction_inames_as_sequential(knl), "create_temporaries")

\* Line 649.
CreateTemporaries ==
    /\ mk_pc = "create_temporaries"
    /\ RunPass(create_temporaries(knl), "expand_cses")

\* Line 650.
ExpandCses ==
    /\ mk_pc = "expand_cses"
    /\ knl' = expand_cses(knl)
    /\ knl_prev' = knl
    /\ cse_expr_to_var' = ExpandCsesState(knl).expr_to_var
    /\ mk_pc' = "check_for_multiple_writes_to_loop_bounds"
    /\ UNCHANGED <<mk_error, notMk>>

\* Line 659.
CheckMultipleWrites ==
    /\ mk_pc = "check_for_multiple_writes_to_loop_bounds"
    /\ \E error \in check_for_multiple_writes_to_loop_bounds(knl) :
          IF error # None THEN Raise(error)
          ELSE Pass("check_for_duplicate_names")

\* Line 660.
CheckDuplicateNames ==
    /\ mk_pc = "check_for_duplicate_names"
    /\ IF check_for_duplicate_names(knl) # None
       THEN Raise(check_for_duplicate_names(knl))
       ELSE Pass("check_written_variable_names")

\* Line 661.
CheckWrittenVariableNames ==
    /\ mk_pc = "check_written_variable_names"
    /\ IF check_written_variable_names(knl) # None
       THEN Raise(check_written_variable_names(knl))
       ELSE Pass("return")

\* Line 663.
Return ==
    /\ mk_pc = "return"
    /\ Pass("returned")

Init == MkInit /\ UngIdle /\ EdIdle /\ PdIdle /\ MtIdle

Next ==
    \/ CheckInameDeps
    \/ CheckReductionDuplication
    \/ TagReductionInames
    \/ CreateTemporaries
    \/ ExpandCses
    \/ CheckMultipleWrites
    \/ CheckDuplicateNames
    \/ CheckWrittenVariableNames
    \/ Return

Spec == Init /\ [][Next]_vars

-----------------------------------------------------------------------------
(* The claims about make_kernel and its passes.                             *)

\* C1: in a kernel that make_kernel returns, the loop-index names, the
\* argument names, the names of the temporaries (declared inline and made
\* for common subexpressions too) and the names of the substitution rules
\* are pairwise disjoint.
C1_NamespacesDisjoint ==
    mk_pc = "returned" =>
        LET inames == all_inames(knl)
            arguments == arg_names(knl)
            temporaries == DOMAIN knl.temporary_variables
            rules == DOMAIN knl.substitutions
        IN  /\ inames \cap arguments = {}
            /\ inames \cap temporaries = {}
            /\ inames \cap rules = {}
            /\ arguments \cap temporaries = {}
            /\ arguments \cap rules = {}
            /\ temporaries \cap rules = {}

\* A kernel is returned that has a substitution rule, a temporary declared
\* inline and a temporary made for a common subexpression.
C1_Witness ==
    /\ mk_pc = "returned"
    /\ DOMAIN knl.substitutions # {}
    /\ Nm("x") \in DOMAIN knl.temporary_variables
    /\ DOMAIN cse_expr_to_var # {}
    /\ DOMAIN knl.temporary_variables # DOMAIN knl_prev.temporary_variables

\* C2: make_kernel returns only if every temporary that is a parameter of a
\* domain is written by exactly one instruction of the final list.
C2_SingleWriter ==
    mk_pc = "returned" =>
        \A tvpar \in DOMAIN knl.temporary_variables :
            (\E k \in DOMAIN knl.domains : tvpar \in knl.domains[k].params) =>
                Cardinality({k \in DOMAIN knl.instructions :
                    knl.instructions[k].assignee.name = tvpar}) = 1

\* A kernel is returned in which the temporary t, declared inline, is a
\* domain parameter, next to an instruction hoisted by expand_cses.
C2_Witness ==
    /\ mk_pc = "returned"
    /\ Nm("t") \in DOMAIN knl.temporary_variables
    /\ knl.temporary_variables[Nm("t")].dtype = "float64"
    /\ \E k \in DOMAIN knl.domains : Nm("t") \in knl.domains[k].params
    /\ Len(knl.instructions) > Len(knl_prev.instructions)

\* Whether an expression holds a common-subexpression node.
RECURSIVE HasCse(_)
HasCse(expr) ==
    expr.op = "cse" \/ \E k \in DOMAIN expr.args : HasCse(expr.args[k])

\* C3: when the assignee check runs, temporaries have been created and
\* common subexpressions flattened (no instruction carries a declared type
\* or a common-subexpression node any more); and in a kernel that
\* make_kernel returns every instruction, hoisted ones included, writes an
\* argument or a temporary of that kernel, so an instruction writing any
\* other name makes construction fail.
C3_WrittenNamesAdmissible ==
    /\ mk_pc \in {"check_written_variable_names", "returned"} =>
          \A k \in DOMAIN knl.instructions :
              /\ knl.instructions[k].temp_var_type = None
              /\ ~ HasCse(knl.instructions[k].expression)
    /\ mk_pc = "returned" =>
          \A k \in DOMAIN knl.instructions :
              knl.instructions[k].assignee.name
                 \in arg_names(knl) \cup DOMAIN knl.temporary_variables

\* A kernel is returned with an instruction whose assignee x was declared
\* inline, "x = x" after it, and a hoisted instruction.
C3_Witness ==
    /\ mk_pc = "returned"
    /\ Nm("x") \notin arg_names(knl)
    /\ Nm("x") \in DOMAIN knl.temporary_variables
    /\ \E k \in DOMAIN knl.instructions :
          /\ knl.instructions[k].assignee.name = Nm("x")
          /\ knl.instructions[k].expression = Variable(Nm("x"))
    /\ Len(knl.instructions) > Len(knl_prev.instructions)

\* The inner expressions of the common-subexpression nodes of an expression,
\* nested ones included.
RECURSIVE CseChildren(_)
CseChildren(expr) ==
    (IF expr.op = "cse" THEN {expr.args[1]} ELSE {})
    \cup UNION {CseChildren(expr.args[k]) : k \in DOMAIN expr.args}

\* Those that do not flatten to a bare variable: a variable stays one, and
\* a common subexpression flattens to the variable that stands for it.
C4_Hoistable(kernel) ==
    {child \in UNION {CseChildren(kernel.instructions[k].expression) :
                         k \in DOMAIN kernel.instructions} :
        child.op \notin {"var", "cse"}}

\* An expression with every common-subexpression node replaced by the
\* variable var_of gives for its inner expression (or, where it gives
\* none, by the inner expression, flattened).
RECURSIVE C4_Flattened(_, _)
C4_Flattened(var_of, expr) ==
    IF expr.op = "cse"
    THEN IF expr.args[1] \in DOMAIN var_of THEN var_of[expr.args[1]]
         ELSE C4_Flattened(var_of, expr.args[1])
    ELSE [expr EXCEPT !.args =
             [k \in DOMAIN expr.args |-> C4_Flattened(var_of, expr.args[k])]]

\* C4: one run of expand_cses makes, for each inner expression that occurs
\* under a common-subexpression tag and does not flatten to a bare
\* variable, exactly one new temporary and exactly one hoisted instruction
\* writing it, however often and in whichever instructions it occurs, and
\* replaces every occurrence by a reference to that temporary.
C4_OneTemporaryPerCse ==
    mk_pc = "check_for_multiple_writes_to_loop_bounds" =>
        LET hoistable == C4_Hoistable(knl_prev)
            new_temps == DOMAIN knl.temporary_variables
                            \ DOMAIN knl_prev.temporary_variables
            old_ids == {knl_prev.instructions[k].id :
                           k \in DOMAIN knl_prev.instructions}
            hoisted == {k \in DOMAIN knl.instructions :
                           knl.instructions[k].id \notin old_ids}
        IN  /\ DOMAIN cse_expr_to_var = hoistable
            /\ Cardinality(new_temps) = Cardinality(hoistable)
            /\ Cardinality(hoisted) = Cardinality(hoistable)
            /\ \A child \in hoistable :
                  /\ cse_expr_to_var[child].op = "var"
                  /\ cse_expr_to_var[child].name \in new_temps
                  /\ Cardinality({k \in hoisted :
                        /\ knl.instructions[k].assignee.name
                              = cse_expr_to_var[child].name
                        /\ knl.instructions[k].expression
                              = C4_Flattened(cse_expr_to_var, child)}) = 1
                  /\ \A other \in hoistable :
                        other # child =>
                           cse_expr_to_var[other] # cse_expr_to_var[child]
            /\ SelectSeq(knl.instructions, LAMBDA insn : insn.id \in old_ids)
                  = [k \in DOMAIN knl_prev.instructions |->
                        [knl_prev.instructions[k] EXCEPT !.expression =
                            C4_Flattened(cse_expr_to_var, @)]]

\* expand_cses has run on "t = cse(a + n)" followed by
\* "x[i] = cse(a + n) + cse(a + n)": three occurrences in two instructions,
\* one hoisted instruction.
C4_Witness ==
    /\ mk_pc = "check_for_multiple_writes_to_loop_bounds"
    /\ Len(knl_prev.instructions) = 2
    /\ knl_prev.instructions[1].expression.op = "cse"
    /\ knl_prev.instructions[2].expression.op = "sum"
    /\ knl_prev.instructions[2].expression.args[1].op = "cse"
    /\ knl_prev.instructions[2].expression.args[2].op = "cse"
    /\ Cardinality(C4_Hoistable(knl_prev)) = 1
    /\ Len(knl.instructions) = 3
    /\ knl.instructions[3].expression.args[1]
          = knl.instructions[3].expression.args[2]
    /\ knl.instructions[3].expression.args[1] = knl.instructions[2].expression

\* The inames of the reductions of the instructions and of the substitution
\* rules of a kernel.
C5_ReductionInames(kernel) ==
    reduction_inames(kernel)
    \cup UNION {ReductionInames(kernel.substitutions[name].expression) :
                  name \in DOMAIN kernel.substitutions}

\* C5: tag_reduction_inames_as_sequential deals with every reduction of
\* every instruction and of every substitution rule: it raises if an iname
\* of one has a parallel tag, the kernel it returns tags such an iname
\* forced-sequential if it had no tag and leaves any other tag alone.
C5_ReductionInamesSequential ==
    mk_pc = "create_temporaries" =>
        \A iname \in C5_ReductionInames(knl_prev) :
            /\ get_tag(knl_prev, iname) # ParallelTag
            /\ get_tag(knl_prev, iname) = None
                  => get_tag(knl, iname) = ForceSequentialTag
            /\ get_tag(knl_prev, iname) # None
                  => get_tag(knl, iname) = get_tag(knl_prev, iname)

\* Whether create_temporaries has just been run, and on which kernel.
CtRan ==
    \/ mk_pc = "expand_cses"
    \/ /\ mk_pc = "raised"
       /\ mk_error \in {"only plain inames", "already exists",
                         "already exists as argument"}

CtInput == IF mk_pc = "expand_cses" THEN knl_prev ELSE knl

\* The instructions that carry a declared type for their assignee.
CtDeclaring(kernel) ==
    {k \in DOMAIN kernel.instructions :
        kernel.instructions[k].temp_var_type # None}

\* Those whose assignee is a temporary already, of the kernel or of an
\* earlier such instruction, or an argument.
CtColliding(kernel) ==
    {k \in CtDeclaring(kernel) :
        LET name == kernel.instructions[k].assignee.name IN
        \/ name \in DOMAIN kernel.temporary_variables
        \/ name \in arg_names(kernel)
        \/ \E j \in CtDeclaring(kernel) :
              j < k /\ kernel.instructions[j].assignee.name = name}

\* What C10 says of a call that returns.
CtReturned ==
    mk_pc = "expand_cses" =>
        /\ DOMAIN knl.temporary_variables =
              DOMAIN knl_prev.temporary_variables
              \cup {knl_prev.instructions[k].assignee.name :
                       k \in CtDeclaring(knl_prev)}
        /\ \A k \in CtDeclaring(knl_prev) :
              LET tv == knl.temporary_variables[
                            knl_prev.instructions[k].assignee.name]
              IN  /\ tv.name = knl_prev.instructions[k].assignee.name
                  /\ tv.dtype = knl_prev.instructions[k].temp_var_type
                  /\ Len(tv.shape) = Len(knl_prev.instructions[k].assignee.indices)
        /\ \A name \in DOMAIN knl_prev.temporary_variables :
              knl.temporary_variables[name] = knl_prev.temporary_variables[name]
        /\ knl.instructions =
              [k \in DOMAIN knl_prev.instructions |->
                  [knl_prev.instructions[k] EXCEPT !.temp_var_type = None]]

\* C10 as claimed: create_temporaries fails with an "already exists" error
\* if an instruction with a declared type names a variable that is a
\* temporary already (of the kernel, or made earlier in the pass) or an
\* argument; when it succeeds the kernel has one temporary per such
\* instruction, no declared-type marker is left, the temporaries it had are
\* as they were, and the instructions are the same in number and order.
C10_AlreadyExists ==
    /\ CtReturned
    /\ (CtRan /\ CtColliding(CtInput) # {}) =>
          /\ mk_pc = "raised"
          /\ mk_error \in {"already exists", "already exists as argument"}

\* The declaring instructions with an assignee index that is no plain iname.
CtBadIndex(kernel) ==
    {k \in CtDeclaring(kernel) :
        BadAssigneeIndex(kernel, kernel.instructions[k])}

\* C10, amended: create_temporaries fails if an instruction with a declared
\* type names a variable that is a temporary already or an argument: with
\* an "already exists" error, unless that instruction or one before it
\* declares an assignee with an index that is no plain iname, which fails
\* first, with the "only plain inames" error.  When it succeeds: as
\* claimed.
C10_AlreadyExistsUnlessBadIndex ==
    /\ CtReturned
    /\ (CtRan /\ CtColliding(CtInput) # {}) =>
          LET first == CHOOSE k \in CtColliding(CtInput) :
                          \A j \in CtColliding(CtInput) : k <= j
          IN  /\ mk_pc = "raised"
              /\ IF \E j \in CtBadIndex(CtInput) : j <= first
                 THEN mk_error = "only plain inames"
                 ELSE mk_error \in {"already exists",
                                    "already exists as argument"}

\* create_temporaries has failed on two instructions that both declare t.
C10_Witness ==
    /\ mk_pc = "raised"
    /\ mk_error = "already exists"
    /\ Len(knl.instructions) = 2
    /\ CtDeclaring(knl) = {1, 2}
    /\ knl.instructions[1].assignee.name = knl.instructions[2].assignee.name
    /\ knl.instructions[1].assignee.name \notin DOMAIN knl.temporary_variables

\* The names of the variables an expression reads.
RECURSIVE C13_Variables(_)
C13_Variables(expr) ==
    (IF expr.op = "var" THEN {expr.name} ELSE {})
    \cup UNION {C13_Variables(expr.args[k]) : k \in DOMAIN expr.args}

\* The temporaries expand_cses has made, and the positions of the
\* instructions that write them: the hoisted instructions.
C13_NewTemporaries ==
    DOMAIN knl.temporary_variables \ DOMAIN knl_prev.temporary_variables

C13_Hoisted ==
    {k \in DOMAIN knl.instructions :
        knl.instructions[k].assignee.name \in C13_NewTemporaries}

\* C13: in the instructions expand_cses returns, a hoisted instruction
\* comes before every instruction whose expression reads the temporary it
\* writes (a hoisted instruction of an enclosing common subexpression
\* included), the original instructions are in the order they were in,
\* each new temporary is written by exactly one hoisted instruction, and
\* the ids of the hoisted instructions differ from one another and from
\* the ids of the original instructions.
C13_HoistedBeforeUse ==
    mk_pc = "check_for_multiple_writes_to_loop_bounds" =>
        LET old_ids == {knl_prev.instructions[k].id :
                           k \in DOMAIN knl_prev.instructions}
            original == SelectSeq(knl.instructions, LAMBDA insn :
                            insn.assignee.name \notin C13_NewTemporaries)
        IN  /\ \A h \in C13_Hoisted : \A k \in DOMAIN knl.instructions :
                  knl.instructions[h].assignee.name
                      \in C13_Variables(knl.instructions[k].expression)
                  => h < k
            /\ [k \in DOMAIN original |-> original[k].id]
                  = [k \in DOMAIN knl_prev.instructions |->
                        knl_prev.instructions[k].id]
            /\ \A name \in C13_NewTemporaries :
                  Cardinality({h \in C13_Hoisted :
                      knl.instructions[h].assignee.name = name}) = 1
            /\ \A h \in C13_Hoisted :
                  /\ knl.instructions[h].id \notin old_ids
                  /\ \A other \in C13_Hoisted \ {h} :
                        knl.instructions[other].id # knl.instructions[h].id

\* expand_cses has run on "t = cse(a + n)" and "a[i] = cse(cse(a + n) + n)":
\* two hoisted instructions, the second reading the temporary of the
\* first, and both before the instructions they were hoisted from.
C13_Witness ==
    /\ mk_pc = "check_for_multiple_writes_to_loop_bounds"
    /\ Len(knl_prev.instructions) = 2
    /\ Len(knl.instructions) = 4
    /\ C13_Hoisted = {1, 3}
    /\ knl.instructions[1].assignee.name
          \in C13_Variables(knl.instructions[2].expression)
    /\ knl.instructions[1].assignee.name
          \in C13_Variables(knl.instructions[3].expression)
    /\ knl.instructions[3].assignee.name
          \in C13_Variables(knl.instructions[4].expression)

(***************************************************************************)
(* MakeTupleCallable: src/loopy/library/function.py lines 28-45.           *)
(*                                                                         *)
(* A dict keyed by argument ids is a function.  Where a dict can have      *)
(* tuples as keys next to integers, the integer key k is <<k>> and the     *)
(* tuple key (k, d) is <<k, d>>.                                           *)
(***************************************************************************)

\* The argument positions are 0 .. MaxArgs-1, the result slots -1 .. -MaxArgs.
MaxArgs == 2

MtArgIds == (-MaxArgs)..(MaxArgs - 1)

MtDtypes == {None, "int32", "float64"}

ValueArgDescriptor == "ValueArgDescriptor()"

ArrayArgDescriptor == "ArrayArgDescriptor()"

\* MakeTupleCallable(name=...), and self.copy(...) by EXCEPT.
MakeTupleCallable(name) ==
    [name |-> name, name_in_target |-> None,
     arg_id_to_dtype |-> None, arg_id_to_descr |-> None]

\* dict(pairs): the first component of a pair is the key, the second the
\* value.
dict(pairs) ==
    [key \in {pair[1] : pair \in pairs} |->
        (CHOOSE pair \in pairs : pair[1] = key)[2]]

\* The loop of lines 31-33 from i on.
RECURSIVE MirrorFrom(_, _, _)
MirrorFrom(arg_id_to_dtype, new_arg_id_to_dtype, i) ==
    IF i >= Cardinality(DOMAIN arg_id_to_dtype) THEN new_arg_id_to_dtype
    ELSE MirrorFrom(arg_id_to_dtype,
             IF i \in DOMAIN arg_id_to_dtype /\ arg_id_to_dtype[i] # None
             THEN Put(new_arg_id_to_dtype, -i-1, new_arg_id_to_dtype[i])
             ELSE new_arg_id_to_dtype,
             i + 1)

\* with_types: the callable returned, and the argument as the call leaves
\* it (the loop writes to the copy of line 30).
with_types(self, arg_id_to_dtype) ==
    [callable |-> [self EXCEPT
         !.arg_id_to_dtype = MirrorFrom(arg_id_to_dtype, arg_id_to_dtype, 0),
         !.name_in_target = "loopy_make_tuple"],
     arg |-> arg_id_to_dtype]

\* with_descrs: each element the generator of lines 40-41 hands to dict is
\* the pair ((id, ValueArgDescriptor()), (-id-1, ValueArgDescriptor())).
with_descrs(self, arg_id_to_descr) ==
    [callable |-> [self EXCEPT !.arg_id_to_descr =
         dict({<< <<id[1], ValueArgDescriptor>>,
                  <<-id[1]-1, ValueArgDescriptor>> >> :
                  id \in DOMAIN arg_id_to_descr})],
     arg |-> arg_id_to_descr]

\* The mappings a caller may pass.
MtDtypeMaps == UNION {[ids -> MtDtypes] : ids \in SUBSET MtArgIds}

MtDescrMaps ==
    UNION {[{<<k>> : k \in ids} -> {ValueArgDescriptor, ArrayArgDescriptor}] :
              ids \in SUBSET MtArgIds}

\* loopy_specific_callable_scopers(target, "make_tuple")
MtInit ==
    /\ mt_callable = MakeTupleCallable("make_tuple")
    /\ mt_call = [given |-> <<>>, after |-> <<>>]
    /\ mt_pc = "scoped"

\* Type inference specializes the scoped callable.
WithTypes ==
    /\ mt_pc = "scoped"
    /\ \E arg_id_to_dtype \in MtDtypeMaps :
          LET r == with_types(mt_callable, arg_id_to_dtype) IN
          /\ mt_callable' = r.callable
          /\ mt_call' = [given |-> arg_id_to_dtype, after |-> r.arg]
    /\ mt_pc' = "typed"
    /\ UNCHANGED notMt

\* Descriptor inference specializes the typed callable.
WithDescrs ==
    /\ mt_pc = "typed"
    /\ \E arg_id_to_descr \in MtDescrMaps :
          LET r == with_descrs(mt_callable, arg_id_to_descr) IN
          /\ mt_callable' = r.callable
          /\ mt_call' = [given |-> arg_id_to_descr, after |-> r.arg]
    /\ mt_pc' = "described"
    /\ UNCHANGED notMt

InitCallable == MtInit /\ UngIdle /\ EdIdle /\ PdIdle /\ MkIdle

NextCallable == WithTypes \/ WithDescrs

SpecCallable == InitCallable /\ [][NextCallable]_vars

\* C11: with_types gives result slot -i-1 the type of every argument
\* position i >= 0 whose type is present and not None in the mapping it is
\* given, keeps every entry of that mapping, and leaves the mapping itself
\* as it was.
C11_MirrorsArgumentTypes ==
    mt_pc = "typed" =>
        LET arg_id_to_dtype == mt_call.given
            new_arg_id_to_dtype == mt_callable.arg_id_to_dtype
        IN  /\ \A i \in DOMAIN arg_id_to_dtype :
                  (i >= 0 /\ arg_id_to_dtype[i] # None) =>
                      /\ -i-1 \in DOMAIN new_arg_id_to_dtype
                      /\ new_arg_id_to_dtype[-i-1] = arg_id_to_dtype[i]
            /\ \A id \in DOMAIN arg_id_to_dtype :
                  /\ id \in DOMAIN new_arg_id_to_dtype
                  /\ new_arg_id_to_dtype[id] = arg_id_to_dtype[id]
            /\ mt_call.after = arg_id_to_dtype

\* C12: the mapping with_descrs returns has, for every slot id k of the
\* mapping it is given, the keys k and -k-1, each with a value-only
\* descriptor, and no other key.
C12_ValueDescriptorPerSlot ==
    mt_pc = "described" =>
        LET new_arg_id_to_descr == mt_callable.arg_id_to_descr
            slots == UNION {{<<id[1]>>, <<-id[1]-1>>} : id \in DOMAIN mt_call.given}
        IN  /\ DOMAIN new_arg_id_to_descr = slots
            /\ \A key \in slots :
                  new_arg_id_to_descr[key] = ValueArgDescriptor

=============================================================================
